---------------------------- MODULE Spec2Model ----------------------------
(***************************************************************************)
(* Customer-churn pipeline: preprocess_data / prepare_features             *)
(* (scripts/preprocessing.py), the training script (scripts/train_model.py)*)
(* and the dashboard's loading and scoring paths                           *)
(* (dashboard/streamlit_app.py).                                           *)
(*                                                                         *)
(* Cell values of a pandas table are tagged records:                       *)
(*   [k |-> "num", n, d]      the rational n/d (d > 0, lowest terms)       *)
(*   [k |-> "nan"]            a missing value (NaN)                        *)
(*   [k |-> "str", s, rep]    the Python string s repeated rep times       *)
(*   [k |-> "z", sgn, n, d]   a standardized value sgn * sqrt(n/d)         *)
(* A table is [type |-> "DataFrame", cols |-> set of column names,         *)
(* rows |-> sequence of functions from cols to values].                    *)
(***************************************************************************)
EXTENDS Integers, Sequences, FiniteSets, TLC

\* ------------------------------------------------------------ bounds
MaxRows == 2

\* the number of calls made on one ChurnPredictor
MaxOps == 3

\* the number of independent callers sharing one trained ChurnPredictor
MaxCallers == 2

\* ------------------------------------------------------------ numbers
Abs(x) == IF x < 0 THEN -x ELSE x

Sgn(x) == IF x < 0 THEN -1 ELSE IF x > 0 THEN 1 ELSE 0

RECURSIVE Gcd(_, _)
Gcd(a, b) == IF b = 0 THEN a ELSE Gcd(b, a % b)

Lcm(a, b) == (a * b) \div Gcd(a, b)

NaN == [k |-> "nan"]

Num(n, d) ==
    LET g == Gcd(Abs(n), d)
    IN  [k |-> "num", n |-> n \div g, d |-> d \div g]

Str(s) == [k |-> "str", s |-> s, rep |-> 1]

IsNum(v) == v.k = "num"
IsNaN(v) == v.k = "nan"
IsStr(v) == v.k = "str"

\* pandas.isnull on a cell: NaN only (a string, even "N/A", is not null)
IsNull(v) == IsNaN(v)

RECURSIVE SeqSum(_)
SeqSum(s) == IF s = <<>> THEN 0 ELSE Head(s) + SeqSum(Tail(s))

RECURSIVE SeqLcm(_)
SeqLcm(s) == IF s = <<>> THEN 1 ELSE Lcm(Head(s), SeqLcm(Tail(s)))

\* ------------------------------------------------------------ tables
ColValues(t, c) == [i \in 1..Len(t.rows) |-> t.rows[i][c]]

\* pandas dtype 'object': the column holds at least one string
IsObjectCol(t, c) == \E i \in 1..Len(t.rows) : IsStr(t.rows[i][c])

\* an int64 column: every value is an integral number (a NaN or a fraction
\* makes the column float64)
IsIntCol(t, c) ==
    \A i \in 1..Len(t.rows) : IsNum(t.rows[i][c]) /\ t.rows[i][c].d = 1

\* the Python type of one cell is int: in an object column each cell keeps
\* its own type, in a numeric column the cell has the column's dtype
CellIsInt(t, c, v) ==
    /\ IsNum(v)
    /\ v.d = 1
    /\ (IsObjectCol(t, c) \/ IsIntCol(t, c))

DropColumns(t, drop) ==
    [type |-> "DataFrame", cols |-> t.cols \ drop,
     rows |-> [i \in 1..Len(t.rows) |->
                 [c \in t.cols \ drop |-> t.rows[i][c]]]]

SetColumn(t, c, vals) ==
    [type |-> "DataFrame", cols |-> t.cols \cup {c},
     rows |-> [i \in 1..Len(t.rows) |->
                 [x \in t.cols \cup {c} |->
                     IF x = c THEN vals[i] ELSE t.rows[i][x]]]]

\* outcomes of a call: a returned value or a raised exception
Raise(exc, arg) == [ok |-> FALSE, exc |-> exc, arg |-> arg]

Return(v) == [ok |-> TRUE, val |-> v]

\* Python objects carry their type: a table is a "DataFrame" record, a
\* tuple a "tuple" record over its items, None the "NoneType" record
Tuple(items) == [type |-> "tuple", items |-> items]

None == [type |-> "NoneType"]

\* ------------------------------------------------------------ preprocessing.py
location_cols ==
    {"City", "State", "Country", "Zip Code", "Lat Long", "Latitude", "Longitude"}

\* pd.to_numeric(errors='coerce') on one cell: a number stays, a numeric
\* string parses, any other string becomes NaN
NumericStrings == {"100"}

ParseNumeric(s) == IF s = "100" THEN Num(100, 1) ELSE NaN

ToNumeric(v) ==
    IF IsStr(v)
    THEN IF v.rep = 1 /\ v.s \in NumericStrings THEN ParseNumeric(v.s) ELSE NaN
    ELSE v

\* row['Monthly Charges'] * row['Tenure Months'] in Python: the product of
\* two numbers, NaN when either is NaN, a string repeated by an int, and a
\* TypeError for a string times a float or a string
MulRaises(t, fee, ten) ==
    \/ IsStr(fee) /\ IsStr(ten)
    \/ IsStr(fee) /\ ~CellIsInt(t, "Tenure Months", ten)
    \/ IsStr(ten) /\ ~CellIsInt(t, "Monthly Charges", fee)

\* the product taken with the tenure in years
MulInYears(fee, ten) ==
    IF IsStr(fee) \/ IsStr(ten) \/ IsNaN(fee) \/ IsNaN(ten) THEN NaN
    ELSE Num(fee.n * ten.n, fee.d * ten.d * 12)

Mul(fee, ten) ==
    IF IsStr(fee)
    THEN [k |-> "str", s |-> fee.s,
          rep |-> IF ten.n > 0 THEN fee.rep * ten.n ELSE 0]
    ELSE IF IsStr(ten)
    THEN [k |-> "str", s |-> ten.s,
          rep |-> IF fee.n > 0 THEN ten.rep * fee.n ELSE 0]
    ELSE IF IsNaN(fee) \/ IsNaN(ten) THEN NaN
    ELSE Num(fee.n * ten.n, fee.d * ten.d)

\* lines 26-31: copy, drop the location columns (errors='ignore')
DropLocation(df) == DropColumns(df, location_cols)

\* lines 33-49: Total Charges, missing-value treatment
ImputeTotalCharges(df) ==
    IF "Total Charges" \notin df.cols THEN Raise("KeyError", "Total Charges")
    ELSE
    LET n == Len(df.rows)
        total_charges_null ==
            Cardinality({i \in 1..n : IsNull(df.rows[i]["Total Charges"])})
        coerced == [i \in 1..n |-> ToNumeric(df.rows[i]["Total Charges"])]
        need == {i \in 1..n : IsNull(coerced[i])}
    IN  IF total_charges_null = 0 THEN Return(df)
        ELSE IF "Monthly Charges" \notin df.cols
             THEN Raise("KeyError", "Monthly Charges")
        ELSE IF "Tenure Months" \notin df.cols
             THEN Raise("KeyError", "Tenure Months")
        ELSE IF \E i \in need :
                  MulRaises(df, df.rows[i]["Monthly Charges"],
                            df.rows[i]["Tenure Months"])
             THEN Raise("TypeError", "Monthly Charges * Tenure Months")
        ELSE Return(SetColumn(df, "Total Charges",
                [i \in 1..n |->
                    IF IsNull(coerced[i])
                    THEN Mul(df.rows[i]["Monthly Charges"],
                             df.rows[i]["Tenure Months"])
                    ELSE coerced[i]]))

\* lines 51-66: rename to the banking vocabulary
column_mapping ==
    [c \in {"Monthly Charges", "Total Charges", "Tenure Months", "Phone Service",
            "Multiple Lines", "Internet Service", "Online Security",
            "Online Backup", "Device Protection", "Tech Support",
            "Streaming TV", "Streaming Movies"} |->
        CASE c = "Monthly Charges"   -> "MonthlyBankFees"
          [] c = "Total Charges"     -> "TotalBalance"
          [] c = "Tenure Months"     -> "YearsWithBank"
          [] c = "Phone Service"     -> "DebitCard"
          [] c = "Multiple Lines"    -> "CreditCard"
          [] c = "Internet Service"  -> "OnlineBanking"
          [] c = "Online Security"   -> "SecureLogin2FA"
          [] c = "Online Backup"     -> "AutomaticSavings"
          [] c = "Device Protection" -> "FraudProtection"
          [] c = "Tech Support"      -> "CustomerSupport"
          [] c = "Streaming TV"      -> "BillPay"
          [] c = "Streaming Movies"  -> "MobilePayments"]

NewName(c) == IF c \in DOMAIN column_mapping THEN column_mapping[c] ELSE c

OldName(t, c) == CHOOSE o \in t.cols : NewName(o) = c

RenameColumns(df) ==
    LET cols == {NewName(c) : c \in df.cols}
    IN  [type |-> "DataFrame", cols |-> cols,
         rows |-> [i \in 1..Len(df.rows) |->
                     [c \in cols |-> df.rows[i][OldName(df, c)]]]]

\* lines 68-69: YearsWithBank from months to years
\* the tenure left in months
MonthsKept(v) == v

MonthsToYears(v) == IF IsNaN(v) THEN NaN ELSE Num(v.n, v.d * 12)

ConvertYears(df) ==
    IF "YearsWithBank" \notin df.cols THEN Raise("KeyError", "YearsWithBank")
    ELSE IF IsObjectCol(df, "YearsWithBank")
    THEN Raise("TypeError", "YearsWithBank / 12")
    ELSE Return(SetColumn(df, "YearsWithBank",
            [i \in 1..Len(df.rows) |->
                MonthsToYears(df.rows[i]["YearsWithBank"])]))

\* lines 74-81: label encoding.  Python orders strings by code point; the
\* strings of the model, in that order:
SortedStrings ==
    << "$75.50", "100", "Bank transfer (automatic)", "Credit card (automatic)",
       "DSL", "Electronic check", "Fiber optic", "Mailed check",
       "Month-to-month", "N/A", "No", "No internet service",
       "No phone service", "One year", "Two year", "Yes" >>

StrRank(s) == CHOOSE i \in 1..Len(SortedStrings) : SortedStrings[i] = s

\* a < b for two strings (a repeated string sorts right after its base; the
\* empty string, rep = 0, sorts first)
StrLess(a, b) ==
    IF a.rep = 0 \/ b.rep = 0 THEN a.rep = 0 /\ b.rep > 0
    ELSE \/ StrRank(a.s) < StrRank(b.s)
         \/ a.s = b.s /\ a.rep < b.rep

excluded_cols == {"CustomerID", "Churn Label", "Churn Reason"}

categorical_cols(df) == {c \in df.cols \ excluded_cols : IsObjectCol(df, c)}

\* LabelEncoder.fit: classes_ are the sorted distinct strings, a NaN last;
\* strings mixed with numbers cannot be sorted (TypeError)
EncoderRaises(df, c) == \E i \in 1..Len(df.rows) : IsNum(df.rows[i][c])

FitEncoder(df, c) ==
    LET vals == {df.rows[i][c] : i \in 1..Len(df.rows)}
        strs == {v \in vals : IsStr(v)}
        Pos(v) == Cardinality({u \in strs : StrLess(u, v)}) + 1
        m == Cardinality(strs)
    IN  [j \in 1..Cardinality(vals) |->
            IF j <= m THEN CHOOSE v \in strs : Pos(v) = j ELSE NaN]

\* LabelEncoder.transform: the 0-based position of the value in classes_
EncodeValue(classes, v) ==
    Num((CHOOSE j \in 1..Len(classes) : classes[j] = v) - 1, 1)

EncodeCategoricals(df) ==
    LET cat == categorical_cols(df)
    IN  IF \E c \in cat : EncoderRaises(df, c)
        THEN Raise("TypeError", "Encoders require uniformly strings or numbers")
        ELSE LET enc == [c \in cat |-> FitEncoder(df, c)]
             IN  Return(
                   [df |-> [type |-> "DataFrame", cols |-> df.cols,
                            rows |-> [i \in 1..Len(df.rows) |->
                               [c \in df.cols |->
                                  IF c \in cat
                                  THEN EncodeValue(enc[c], df.rows[i][c])
                                  ELSE df.rows[i][c]]]],
                    encoders |-> enc])

\* lines 83-87: StandardScaler.  fit: per column the mean and the population
\* variance of the non-missing values; a zero variance scales by 1.
\* transform: (x - mean) / sqrt(var), NaN kept.  With the values a_i / D over
\* a common denominator D, S = sum a_i and Q = sum a_i^2 over the n present
\* values: mean = S / (n D), var = (n Q - S^2) / (n D)^2.
numerical_cols == <<"YearsWithBank", "MonthlyBankFees", "TotalBalance">>

FitScalerColumn(vals) ==
    LET idx == {i \in 1..Len(vals) : IsNum(vals[i])}
        n == Cardinality(idx)
        D == SeqLcm([i \in 1..Len(vals) |->
                        IF i \in idx THEN vals[i].d ELSE 1])
        a == [i \in 1..Len(vals) |->
                 IF i \in idx THEN vals[i].n * (D \div vals[i].d) ELSE 0]
        S == SeqSum(a)
        Q == SeqSum([i \in 1..Len(vals) |-> a[i] * a[i]])
    IN  [n |-> n, D |-> D, S |-> S, V |-> n * Q - S * S]

\* a standardized value sgn * sqrt(num / den)
Z(num, den) ==
    IF num = 0 THEN [k |-> "z", sgn |-> 0, n |-> 0, d |-> 1]
    ELSE LET g == Gcd(num * num, den)
         IN  [k |-> "z", sgn |-> Sgn(num),
              n |-> (num * num) \div g, d |-> den \div g]

\* a scaler that divides by the deviation without subtracting the mean
ScaleUncentred(st, v) ==
    IF IsNaN(v) \/ st.n = 0 THEN NaN ELSE Z(v.n, v.d * v.d)

\* StandardScaler.transform of one value: (x - mean_) / scale_, a NaN
\* passing through and a zero variance giving scale_ = 1
ScaleValue(st, v) ==
    IF IsNaN(v) \/ st.n = 0 THEN NaN
    ELSE LET a == v.n * st.n * st.D
             b == st.S * v.d
         IN  IF st.V = 0
             \* scale_ = 1: x - mean
             THEN IF a = b THEN Z(0, 1)
                  ELSE Z(a - b, (v.d * st.n * st.D) * (v.d * st.n * st.D))
             ELSE Z(a - b, st.V * v.d * v.d)

ScaleNumericals(df) ==
    IF \E j \in 1..Len(numerical_cols) : numerical_cols[j] \notin df.cols
    THEN Raise("KeyError",
               numerical_cols[CHOOSE j \in 1..Len(numerical_cols) :
                   /\ numerical_cols[j] \notin df.cols
                   /\ \A h \in 1..(j - 1) : numerical_cols[h] \in df.cols])
    ELSE LET num == {numerical_cols[j] : j \in 1..Len(numerical_cols)}
             scaler == [c \in num |-> FitScalerColumn(ColValues(df, c))]
         IN  Return(
               [df |-> [type |-> "DataFrame", cols |-> df.cols,
                        rows |-> [i \in 1..Len(df.rows) |->
                           [c \in df.cols |->
                              IF c \in num
                              THEN ScaleValue(scaler[c], df.rows[i][c])
                              ELSE df.rows[i][c]]]],
                scaler |-> scaler])

\* lines 71-72, 81, 87: the transformers dictionary
EncoderKey(c) == c \o "_encoder"

Transformers(encoders, scaler) ==
    [key \in {EncoderKey(c) : c \in DOMAIN encoders} \cup {"numerical_scaler"} |->
        IF key = "numerical_scaler" THEN scaler
        ELSE encoders[CHOOSE c \in DOMAIN encoders : EncoderKey(c) = key]]

\* the location columns dropped in place from the argument itself
WorkingInPlace(df) == [table |-> DropLocation(df), shares |-> TRUE]

\* lines 26-31: df_processed is a copy of the argument without the location
\* columns, an object of its own (shares: it is the caller's object)
WorkingCopy(df) == [table |-> DropLocation(df), shares |-> FALSE]

\* the caller's table after the call: the column assignments of lines 39-47
\* write into df_processed, and rename (line 66) binds a new object
CallerTableAfter(df) ==
    LET work == WorkingCopy(df)
        imputed == ImputeTotalCharges(work.table)
    IN  IF ~work.shares THEN df
        ELSE IF imputed.ok THEN imputed.val ELSE work.table

\* the table as it stands before the encoding and scaling steps
\* (lines 26-69): the canonical, unscaled record values
CanonicalTable(df) ==
    LET imputed == ImputeTotalCharges(WorkingCopy(df).table)
    IN  IF ~imputed.ok THEN imputed
        ELSE ConvertYears(RenameColumns(imputed.val))

\* lines 71-94: fit the encoders and the scaler on the table, transform it
\* with them and return (df_processed, transformers)
EncodeAndScale(canonical) ==
    LET encoded == EncodeCategoricals(canonical)
    IN  IF ~encoded.ok THEN encoded
        ELSE LET scaled == ScaleNumericals(encoded.val.df)
             IN  IF ~scaled.ok THEN scaled
                 ELSE Return(Tuple(<<scaled.val.df,
                                     Transformers(encoded.val.encoders,
                                                  scaled.val.scaler)>>))

\* preprocess_data(df): lines 10-94
preprocess_data(df) ==
    LET canonical == CanonicalTable(df)
    IN  IF ~canonical.ok THEN canonical
        ELSE EncodeAndScale(canonical.val)

\* prepare_features(df): lines 96-129
feature_list ==
    << "YearsWithBank", "MonthlyBankFees", "TotalBalance",
       "DebitCard", "CreditCard", "OnlineBanking", "SecureLogin2FA",
       "AutomaticSavings", "FraudProtection", "CustomerSupport",
       "BillPay", "MobilePayments", "Contract", "PaperlessBilling",
       "PaymentMethod" >>

\* the filter dropping a listed column that the table has
feature_cols_short(df) ==
    SelectSeq(feature_list, LAMBDA c : c \in df.cols /\ c # "Contract")

feature_cols(df) == SelectSeq(feature_list, LAMBDA c : c \in df.cols)

\* the matrix with its rows in reverse order
MatrixReversed(df, cols) ==
    [i \in 1..Len(df.rows) |->
        [j \in 1..Len(cols) |-> df.rows[Len(df.rows) + 1 - i][cols[j]]]]

Matrix(df, cols) ==
    [i \in 1..Len(df.rows) |-> [j \in 1..Len(cols) |-> df.rows[i][cols[j]]]]

prepare_features(df) ==
    IF "Churn Value" \notin df.cols THEN Raise("KeyError", "Churn Value")
    ELSE Return(Tuple(<<Matrix(df, feature_cols(df)),
                        ColValues(df, "Churn Value"),
                        feature_cols(df)>>))

\* ------------------------------------------------------------ inputs
\* The raw tables of the model.  A table has the columns of the Telco churn
\* workbook (TelcoCols) or a variant of them; a row is built from a tenure in
\* months, a monthly charge, a total charge and a profile that fixes its
\* categorical cells.
ServiceCols ==
    {"Phone Service", "Multiple Lines", "Internet Service", "Online Security",
     "Online Backup", "Device Protection", "Tech Support", "Streaming TV",
     "Streaming Movies"}

TelcoCols ==
    {"CustomerID", "City", "Tenure Months", "Monthly Charges", "Total Charges",
     "Contract", "Paperless Billing", "Payment Method", "Churn Label",
     "Churn Value"} \cup ServiceCols

\* a workbook whose billing columns already carry the canonical names
CanonicalPayCols ==
    (TelcoCols \ {"Paperless Billing", "Payment Method"})
        \cup {"PaperlessBilling", "PaymentMethod"}

\* a workbook without the churn indicator columns
UnlabelledCols == TelcoCols \ {"Churn Label", "Churn Value"}

Schemas == {TelcoCols, CanonicalPayCols, UnlabelledCols}

\* the columns preprocess_data reads by name (lines 34, 43, 69, 84)
required_cols == {"Tenure Months", "Monthly Charges", "Total Charges"}

\* tables that lack one of them
MissingRequiredSchemas == {TelcoCols \ {c} : c \in required_cols}

\* tables with the churn indicator in one form only: the "Yes"/"No" text
\* (Churn Label) or the 0/1 field (Churn Value)
LabelOnlyCols == TelcoCols \ {"Churn Value"}

ValueOnlyCols == TelcoCols \ {"Churn Label"}

VariantSchemas ==
    (Schemas \ {TelcoCols}) \cup MissingRequiredSchemas
        \cup {LabelOnlyCols, ValueOnlyCols}

Profiles == {"churner", "loyal"}

ProfileCell(p, c) ==
    IF p = "churner"
    THEN CASE c = "CustomerID" -> Str("3668-QPYBK")
           [] c = "City" -> Str("Los Angeles")
           [] c = "Contract" -> Str("Month-to-month")
           [] c \in {"Paperless Billing", "PaperlessBilling"} -> Str("Yes")
           [] c \in {"Payment Method", "PaymentMethod"} -> Str("Electronic check")
           [] c = "Churn Label" -> Str("Yes")
           [] c = "Churn Value" -> Num(1, 1)
           [] c = "Internet Service" -> Str("DSL")
           [] c = "Multiple Lines" -> Str("No")
           [] OTHER -> Str("Yes")
    ELSE CASE c = "CustomerID" -> Str("7590-VHVEG")
           [] c = "City" -> Str("San Diego")
           [] c = "Contract" -> Str("Two year")
           [] c \in {"Paperless Billing", "PaperlessBilling"} -> Str("No")
           [] c \in {"Payment Method", "PaymentMethod"} -> Str("Mailed check")
           [] c = "Churn Label" -> Str("No")
           [] c = "Churn Value" -> Num(0, 1)
           [] c = "Internet Service" -> Str("No")
           [] c = "Phone Service" -> Str("No")
           [] c = "Multiple Lines" -> Str("No phone service")
           [] OTHER -> Str("No internet service")

RawRow(cols, r) ==
    [c \in cols |->
        CASE c = "Tenure Months" -> r[1]
          [] c = "Monthly Charges" -> r[2]
          [] c = "Total Charges" -> r[3]
          [] OTHER -> ProfileCell(r[4], c)]

TenureValues == {Num(36, 1), NaN}
FeeValues == {Num(40, 1), Str("$75.50"), NaN}
TotalValues == {Num(100, 1), NaN}

\* <<tenure months, monthly charge, total charge, profile>>
RowPool ==
    (TenureValues \X FeeValues \X TotalValues \X {"churner"})
    \cup {<<Num(24, 1), Num(40, 1), NaN, "loyal">>,
          <<Num(24, 1), Num(40, 1), Num(100, 1), "loyal">>,
          <<Num(36, 1), Num(40, 1), Str("N/A"), "loyal">>,
          <<Num(36, 1), Str("$75.50"), Str("100"), "churner">>}

\* the rows used with the variant schemas
VariantRowPool ==
    {<<Num(36, 1), Num(40, 1), NaN, "churner">>,
     <<Num(24, 1), Num(40, 1), Num(100, 1), "loyal">>}

RECURSIVE SeqsUpTo(_, _)
SeqsUpTo(S, n) ==
    IF n = 0 THEN {<<>>}
    ELSE LET shorter == SeqsUpTo(S, n - 1)
         IN  shorter \cup {Append(q, x) : q \in shorter, x \in S}

MakeTable(cols, rs) ==
    [type |-> "DataFrame", cols |-> cols,
     rows |-> [i \in 1..Len(rs) |-> RawRow(cols, rs[i])]]

RawTables ==
    {MakeTable(TelcoCols, rs) : rs \in SeqsUpTo(RowPool, MaxRows) \ {<<>>}}
    \cup {MakeTable(cols, rs) :
            cols \in VariantSchemas,
            rs \in SeqsUpTo(VariantRowPool, MaxRows) \ {<<>>}}

\* the tables the data workbook of the running system may hold
DataRowPool ==
    VariantRowPool \cup {<<Num(36, 1), Str("$75.50"), Num(100, 1), "churner">>}

DataTables ==
    {MakeTable(cols, rs) :
        cols \in Schemas, rs \in SeqsUpTo(DataRowPool, MaxRows) \ {<<>>}}

\* the dashboard's form (streamlit_app.py lines 808-843): the number inputs
\* and the select boxes; <<years, monthly fees, total balance, selection>>
FormInputs ==
    {<<Num(5, 1), Num(100, 1), Num(1000, 1)>>,
     <<Num(3, 1), Num(40, 1), Num(120, 1)>>} \X {"default", "other"}

FormCell(sel, c) ==
    IF sel = "default"
    THEN CASE c = "Internet Service" -> Str("DSL")
           [] c = "Contract" -> Str("Month-to-month")
           [] OTHER -> Str("Yes")
    ELSE CASE c = "Internet Service" -> Str("Fiber optic")
           [] c = "Contract" -> Str("Two year")
           [] c = "Multiple Lines" -> Str("No phone service")
           [] c = "Phone Service" -> Str("No")
           [] OTHER -> Str("No internet service")

\* lines 847-862: the one-row table built from the form
input_cols ==
    {"Tenure Months", "Monthly Charges", "Total Charges", "Contract"}
        \cup ServiceCols

InputData(f) ==
    [type |-> "DataFrame", cols |-> input_cols,
     rows |-> << [c \in input_cols |->
                    CASE c = "Tenure Months" -> Num(f[1][1].n * 12, f[1][1].d)
                      [] c = "Monthly Charges" -> f[1][2]
                      [] c = "Total Charges" -> f[1][3]
                      [] OTHER -> FormCell(f[2], c)] >>]

\* ------------------------------------------------------------ churn_model.py
model_types == {"logistic", "random_forest", "xgboost"}

\* ChurnPredictor.__init__ (lines 10-30) for a known model_type: the
\* classifier of that type, not fitted.  A classifier is fitted or not, and a
\* fitted one is determined by its type, its fixed random_state and the X
\* and y it was fitted on.
\* lines 23-28: the classifier class of each model_type
Family(model_type) ==
    CASE model_type = "logistic" -> "LogisticRegression"
      [] model_type = "random_forest" -> "RandomForestClassifier"
      [] model_type = "xgboost" -> "XGBClassifier"

ChurnPredictorInit(model_type) ==
    [type |-> "ChurnPredictor", model_type |-> model_type,
     model |-> [estimator |-> Family(model_type), fitted |-> FALSE,
                n_features_in |-> 0, X |-> <<>>, y |-> <<>>],
     feature_names |-> None]

\* a constructor that falls back to the default model_type
NewChurnPredictorDefaulting(model_type) ==
    IF model_type \in model_types THEN Return(ChurnPredictorInit(model_type))
    ELSE Return(ChurnPredictorInit("xgboost"))

\* ChurnPredictor(model_type): lines 19-30
NewChurnPredictor(model_type) ==
    IF model_type \in model_types THEN Return(ChurnPredictorInit(model_type))
    ELSE Raise("ValueError",
               "model_type must be 'logistic', 'random_forest', or 'xgboost'")

\* line 46, self.model.fit(X, y): the classifier validates its input first
\* and raises for an empty X or an X and y of different lengths
FitRaises(Xm, yv) == Xm = <<>> \/ Len(Xm) # Len(yv)

\* train that stores the names and does not fit
TrainWithoutFit(self, Xm, yv, names) ==
    [self EXCEPT !.feature_names = [type |-> "list", items |-> names]]

\* train that fits incrementally, on top of the rows it has seen
TrainWarmStart(self, Xm, yv, names) ==
    [self EXCEPT !.feature_names = [type |-> "list", items |-> names],
                 !.model = [estimator |-> self.model.estimator,
                            fitted |-> TRUE, n_features_in |-> Len(Xm[1]),
                            X |-> self.model.X \o Xm,
                            y |-> self.model.y \o yv]]

\* ChurnPredictor.train (lines 32-46), fit returning: the names are stored
\* and the classifier is fitted anew on X and y
Train(self, Xm, yv, names) ==
    [self EXCEPT !.feature_names = [type |-> "list", items |-> names],
                 !.model = [estimator |-> self.model.estimator,
                            fitted |-> TRUE, n_features_in |-> Len(Xm[1]),
                            X |-> Xm, y |-> yv]]

\* ChurnPredictor.train, fit raising: line 45 has run, line 46 has not
\* completed
TrainRaised(self, names) ==
    [self EXCEPT !.feature_names = [type |-> "list", items |-> names]]

\* ChurnPredictor.evaluate (lines 48-75): the predictor is only read
Evaluate(self, Xm, yv) ==
    IF ~self.model.fitted THEN Raise("NotFittedError", self.model_type)
    ELSE IF \E i \in 1..Len(Xm) : Len(Xm[i]) # self.model.n_features_in
    THEN Raise("ValueError", "feature shape mismatch")
    ELSE IF Len(Xm) # Len(yv)
    THEN Raise("ValueError", "inconsistent numbers of samples")
    ELSE Return([k |-> "metrics", model |-> self.model, X |-> Xm, y |-> yv])

\* ChurnPredictor.get_feature_importance (lines 77-98): the predictor is
\* only read
GetFeatureImportance(self, Xm) ==
    IF ~self.model.fitted THEN Raise("Exception", self.model_type)
    ELSE IF \E i \in 1..Len(Xm) : Len(Xm[i]) # self.model.n_features_in
    THEN Raise("ValueError", "feature shape mismatch")
    ELSE Return([k |-> "shap_values", model |-> self.model, X |-> Xm])

\* evaluate that fits the classifier on the data it is given
EvaluateRefits(self, Xm, yv) ==
    [self EXCEPT !.model = [estimator |-> self.model.estimator,
                            fitted |-> TRUE,
                            n_features_in |-> IF Xm = <<>> THEN 0
                                              ELSE Len(Xm[1]),
                            X |-> Xm, y |-> yv]]

\* the predictor after evaluate (lines 64-75): predict and predict_proba
\* leave the classifier as fitted, and no attribute of self is assigned
EvaluateSelf(self, Xm, yv) == self

\* the predictor after get_feature_importance (lines 91-98): the explainer
\* is a new object built around self.model, which it only reads
GetFeatureImportanceSelf(self, Xm) == self

\* the predictor after model.model.predict_proba(X)
PredictProbaSelf(self, Xm) == self

\* the data sets handed to train, evaluate and get_feature_importance:
\* <<X, y, feature_names>>
TrainingSets ==
    { << << <<Num(1, 1), Num(0, 1)>>, <<Num(-1, 1), Num(1, 1)>> >>,
         <<Num(1, 1), Num(0, 1)>>,
         <<"YearsWithBank", "Contract">> >>,
      << << <<Num(-1, 1), Num(1, 1), Num(1, 1)>>,
            <<Num(1, 1), Num(-1, 1), Num(0, 1)>> >>,
         <<Num(0, 1), Num(1, 1)>>,
         <<"YearsWithBank", "MonthlyBankFees", "Contract">> >>,
      \* an y one entry short
      << << <<Num(1, 1), Num(0, 1)>>, <<Num(-1, 1), Num(1, 1)>> >>,
         <<Num(1, 1)>>,
         <<"YearsWithBank", "OnlineBanking">> >> }

\* classifier.predict_proba(X)[:, 1]: the fitted classifier checks the column
\* count of X; the probability is a function of the classifier and the row
PredictProba(clf, Xm) ==
    IF \E i \in 1..Len(Xm) : Len(Xm[i]) # clf.n_features_in
    THEN Raise("ValueError", "feature shape mismatch")
    ELSE Return([i \in 1..Len(Xm) |-> [k |-> "proba", row |-> Xm[i]]])

\* the predictor found in models/xgb_model.joblib: the training run that
\* wrote it fitted a ChurnPredictor on the prepared features of the workbook
PersistedPredictor(file) ==
    LET pre == preprocess_data(file)
        feat == prepare_features(pre.val.items[1])
    IN  Train(ChurnPredictorInit("xgboost"), feat.val.items[1],
              feat.val.items[2], feat.val.items[3])

Trainable(file) ==
    /\ file.type = "DataFrame"
    /\ preprocess_data(file).ok
    /\ prepare_features(preprocess_data(file).val.items[1]).ok

\* train_evaluate_model (lines 100-147).
\* test_size is the rational <<numerator, denominator>>; the default 0.2
test_sizes == {<<1, 5>>}

\* train_test_split sizes: n_test = ceil(test_size * n), n_train the rest
NTest(n, test_size) ==
    (n * test_size[1] + test_size[2] - 1) \div test_size[2]

\* the seeds a random number generator may be run with
Seeds == {42, 7}

\* a split drawing a fresh seed in every run
AnySeed == Seeds

\* line 126: random_state=42
SplitSeeds == {42}

\* lines 24-28: random_state=42 of the classifier
ClassifierSeeds == {42}

\* the permutations of 1..n a generator may give (the rotations of 1..n)
Shuffles(n) ==
    {[i \in 1..n |-> ((i + k - 1) % n) + 1] : k \in 0..(n - 1)}

\* train_test_split(X, y, test_size, random_state): the permutation's first
\* n_test indices are the test rows, the rest the train rows
TrainTestSplit(n, test_size, perm) ==
    LET n_test == NTest(n, test_size)
    IN  IF n - n_test <= 0
        THEN Raise("ValueError", "the resulting train set will be empty")
        ELSE Return([test |-> [i \in 1..n_test |-> perm[i]],
                     train |-> [i \in 1..(n - n_test) |-> perm[n_test + i]]])

Take(seq, idx) == [i \in 1..Len(idx) |-> seq[idx[i]]]

OneClass(yv) == \A i, j \in 1..Len(yv) : yv[i] = yv[j]

ClassCount(yv, v) == Cardinality({i \in 1..Len(yv) : yv[i] = v})

\* line 131, model.train on a training set of one class: LogisticRegression
\* refuses it, RandomForestClassifier fits it, XGBClassifier refuses it or
\* fits it depending on its version (env)
TrainEvalFitRaises(env, self, Xm, yv) ==
    \/ FitRaises(Xm, yv)
    \/ /\ OneClass(yv)
       /\ \/ self.model_type = "logistic"
          \/ self.model_type = "xgboost" /\ env.xgb_one_class_raises

\* lines 134-135, model.evaluate: predict_proba(X)[:, 1] has no column 1 for
\* a random forest fitted on one class, and roc_auc_score on a y of one
\* class raises or warns depending on the version of the library (env)
TrainEvalEvaluate(env, self, Xm, yv) ==
    IF ~Evaluate(self, Xm, yv).ok THEN Evaluate(self, Xm, yv)
    ELSE IF self.model_type = "random_forest" /\ OneClass(self.model.y)
    THEN Raise("IndexError", "index 1 is out of bounds for axis 1")
    ELSE IF OneClass(yv) /\ env.roc_auc_raises
    THEN Raise("ValueError", "Only one class present in y_true")
    ELSE Evaluate(self, Xm, yv)

\* cross-validation fitting the predictor's own classifier on all the rows
CrossValFitsInPlace(self, Xm, yv) ==
    [self EXCEPT !.model = [estimator |-> self.model.estimator,
                            fitted |-> TRUE, n_features_in |-> Len(Xm[1]),
                            X |-> Xm, y |-> yv]]

\* the predictor after cross_val_score(model.model, X, y, cv=5) (line 138):
\* each fold fits a clone of the classifier
CrossValSelf(self, Xm, yv) == self

\* cross_val_score(model.model, X, y, cv=5): five stratified folds, taken
\* in row order; refused for fewer than 5 rows or fewer than 5 rows in every
\* class.  The scores are determined by the classifier's class, its
\* random_state and the data.
CrossValScore(self, Xm, yv, seed) ==
    IF Len(Xm) < 5
    THEN Raise("ValueError", "n_splits=5 greater than the number of samples")
    ELSE IF \A i \in 1..Len(yv) : ClassCount(yv, yv[i]) < 5
    THEN Raise("ValueError",
               "n_splits=5 greater than the number of members in each class")
    ELSE Return([k |-> "cv_scores", estimator |-> self.model.estimator,
                 random_state |-> seed, cv |-> 5, X |-> Xm, y |-> yv])

\* the data train_evaluate_model is called with: <<X, y, feature_names>>,
\* the row i of X holding the number i
RowsOf(n) == [i \in 1..n |-> <<Num(i, 1)>>]

TrainEvalData ==
    { << RowsOf(7),
         <<Num(0, 1), Num(0, 1), Num(0, 1), Num(0, 1), Num(0, 1),
           Num(1, 1), Num(1, 1)>>,
         <<"YearsWithBank">> >>,
      << RowsOf(3), <<Num(0, 1), Num(1, 1), Num(0, 1)>>,
         <<"YearsWithBank">> >> }

\* ------------------------------------------------------------ train_model.py
\* train_model() (lines 13-94): the files written to models/, in order, and
\* the value returned.  df is what preprocess_data returned and X what
\* prepare_features returned; .shape exists on a DataFrame, not on a tuple.
HasShape(obj) == obj.type \in {"DataFrame", "ndarray"}

\* a run reporting success without having saved anything
train_model_unsaved(file) == [ret |-> TRUE, exc |-> "", written |-> <<>>]

train_model(file) ==
    IF file.type # "DataFrame"
    THEN [ret |-> FALSE, exc |-> "FileNotFoundError", written |-> <<>>]
    ELSE LET pre == preprocess_data(file)
         IN  IF ~pre.ok
             THEN [ret |-> FALSE, exc |-> pre.exc, written |-> <<>>]
             ELSE LET df == pre.val
                  IN  IF ~HasShape(df)
                      THEN [ret |-> FALSE, exc |-> "AttributeError",
                            written |-> <<>>]
                      ELSE LET Xr == prepare_features(df)
                           IN  IF ~Xr.ok
                               THEN [ret |-> FALSE, exc |-> Xr.exc,
                                     written |-> <<>>]
                               ELSE IF ~HasShape(Xr.val)
                               THEN [ret |-> FALSE, exc |-> "AttributeError",
                                     written |-> <<>>]
                               ELSE [ret |-> TRUE, exc |-> "",
                                     written |-> <<"churn_model.joblib",
                                                   "scaler.joblib",
                                                   "feature_names.joblib">>]

\* ------------------------------------------------------------ streamlit_app.py
\* load_data() (lines 137-156)
load_data(file) ==
    IF file.type # "DataFrame" THEN <<None, None, None>>
    ELSE LET pre == preprocess_data(file)
         IN  IF ~pre.ok THEN <<None, None, None>>
             ELSE <<CallerTableAfter(file), pre.val.items[1],
                    pre.val.items[2]>>

\* load_models() (lines 158-173)
model_path == "xgb_model.joblib"

\* a file joblib.load cannot read
Unreadable == [type |-> "unreadable"]

load_models(dir) ==
    IF model_path \notin DOMAIN dir THEN None
    ELSE IF dir[model_path] = Unreadable THEN None
    ELSE dir[model_path]

\* a guard that looks at the data only
DataMissing(d, m) == d = None

\* line 180: if df is None or model is None
LoadFailed(d, m) == d = None \/ m = None

\* lines 868-873: the columns selected for the individual prediction
X_input_cols ==
    << "YearsWithBank", "MonthlyBankFees", "TotalBalance",
       "DebitCard", "CreditCard", "OnlineBanking", "SecureLogin2FA",
       "AutomaticSavings", "FraudProtection", "CustomerSupport",
       "BillPay", "MobilePayments", "Contract" >>

\* ------------------------------------------------------------ state
VARIABLES
    data_file,      \* data/Telco_customer_churn.xlsx: a table, or NoFile
    models_dir,     \* models/: file name -> content
    tm_pc,          \* train_model: "idle" or "returned"
    tm_result,      \* train_model: what the run returned and wrote
    dash_pc,        \* dashboard script: "start", "data", "models", "ready",
                    \* "stopped"
    raw_df, df, transformers,   \* line 177
    model,                      \* line 178
    X, y, feature_names,        \* line 185
    risk_scores,                \* line 732: the last whole-data-set scoring
    individual,                 \* lines 845-876: the last individual scoring:
                                \* its input_data, the transformers its
                                \* preprocess_data call applied, the columns and
                                \* rows of X_input and the outcome
    raw_table,      \* pipeline: the table handed to preprocess_data
    pl_pc,          \* pipeline: "input", "canonical", "normalized",
                    \* "prepared", "raised"
    pl_arg,         \* pipeline: the caller's table object once
                    \* preprocess_data has it
    pl_canon,       \* pipeline: df_processed after line 69
    pl_out,         \* pipeline: outcome of preprocess_data(raw_table)
    pl_feat,        \* pipeline: outcome of prepare_features
    pl_single,      \* pipeline: outcome of preprocess_data on one row alone
    predictor,      \* a ChurnPredictor object, None before its construction
    pd_hist,        \* the calls made on it so far, each with its arguments
                    \* and its outcome
    sv_loaded,      \* serving: the predictor as it was loaded
    callers,        \* serving: per caller the call in flight or returned
    shuffle,        \* the random number generator: seed -> permutation
    te_env,         \* the installed libraries' version-dependent behaviour
    te_args,        \* train_evaluate_model: X, y, feature_names, model_type,
                    \* test_size
    te,             \* train_evaluate_model: the run in progress
    te_first        \* train_evaluate_model: the run before it, once over

sys_vars ==
    <<data_file, models_dir, tm_pc, tm_result, dash_pc, raw_df, df,
      transformers, model, X, y, feature_names, risk_scores, individual>>

pl_vars == <<raw_table, pl_pc, pl_arg, pl_canon, pl_out, pl_feat, pl_single>>

pd_vars == <<predictor, pd_hist>>

sv_vars == <<sv_loaded, callers>>

te_vars == <<shuffle, te_env, te_args, te, te_first>>

vars == <<sys_vars, pl_vars, pd_vars, sv_vars, te_vars>>

NoFile == [type |-> "missing"]

\* the system at rest: nothing run, nothing loaded
SysIdle ==
    /\ tm_pc = "idle"
    /\ tm_result = None
    /\ dash_pc = "start"
    /\ raw_df = None /\ df = None /\ transformers = None
    /\ model = None
    /\ X = None /\ y = None /\ feature_names = None
    /\ risk_scores = None
    /\ individual = None

PredictorIdle ==
    /\ predictor = None
    /\ pd_hist = <<>>

TrainEvalIdle ==
    /\ shuffle = None
    /\ te_env = None
    /\ te_args = None
    /\ te = None
    /\ te_first = None

Callers == 1..MaxCallers

ServingIdle ==
    /\ sv_loaded = None
    /\ callers = [c \in Callers |-> [pc |-> "idle"]]

PipelineIdle ==
    /\ pl_pc = "input"
    /\ pl_arg = None
    /\ pl_canon = None
    /\ pl_out = None
    /\ pl_feat = None
    /\ pl_single = None

\* ------------------------------------------------------------ the running system
\* The workbook is any of DataTables or absent; models/ is empty, or holds
\* as xgb_model.joblib an unreadable file or the predictor an earlier
\* training run persisted.
Init ==
    /\ data_file \in DataTables \cup {NoFile}
    /\ models_dir \in
         {[f \in {} |-> None], [f \in {model_path} |-> Unreadable]} \cup
         (IF Trainable(data_file)
          THEN {[f \in {model_path} |-> PersistedPredictor(data_file)]}
          ELSE {})
    /\ SysIdle
    /\ raw_table = None
    /\ PipelineIdle
    /\ PredictorIdle
    /\ ServingIdle
    /\ TrainEvalIdle

\* python train_model.py
TrainModel ==
    /\ tm_pc = "idle"
    /\ tm_pc' = "returned"
    /\ \E run \in {train_model(data_file)} :
         /\ tm_result' = run
         /\ models_dir' =
              [f \in DOMAIN models_dir \cup
                     {run.written[j] : j \in 1..Len(run.written)} |->
                 IF \E j \in 1..Len(run.written) : run.written[j] = f
                 THEN [type |-> "joblib", by |-> "train_model"]
                 ELSE models_dir[f]]
    /\ UNCHANGED <<data_file, dash_pc, raw_df, df, transformers, model, X, y,
                   feature_names, risk_scores, individual, pl_vars, pd_vars, sv_vars, te_vars>>

\* line 177: raw_df, df, transformers = load_data()
LoadData ==
    /\ dash_pc = "start"
    /\ dash_pc' = "data"
    /\ \E loaded \in {load_data(data_file)} :
         /\ raw_df' = loaded[1]
         /\ df' = loaded[2]
         /\ transformers' = loaded[3]
    /\ UNCHANGED <<data_file, models_dir, tm_pc, tm_result, model, X, y,
                   feature_names, risk_scores, individual, pl_vars, pd_vars, sv_vars, te_vars>>

\* line 178: model = load_models()
LoadModels ==
    /\ dash_pc = "data"
    /\ dash_pc' = "models"
    /\ model' = load_models(models_dir)
    /\ UNCHANGED <<data_file, models_dir, tm_pc, tm_result, raw_df, df,
                   transformers, X, y, feature_names, risk_scores, individual,
                   pl_vars, pd_vars, sv_vars, te_vars>>

\* lines 180-190: the load guard, then X, y, feature_names = prepare_features(df)
PrepareOrStop ==
    /\ dash_pc = "models"
    /\ IF LoadFailed(df, model)
       THEN /\ dash_pc' = "stopped"
            /\ UNCHANGED <<X, y, feature_names>>
       ELSE LET feat == prepare_features(df)
            IN  IF ~feat.ok
                THEN /\ dash_pc' = "stopped"
                     /\ UNCHANGED <<X, y, feature_names>>
                ELSE /\ dash_pc' = "ready"
                     /\ X' = [type |-> "ndarray", rows |-> feat.val.items[1]]
                     /\ y' = [type |-> "ndarray", rows |-> feat.val.items[2]]
                     /\ feature_names' =
                            [type |-> "list", items |-> feat.val.items[3]]
    /\ UNCHANGED <<data_file, models_dir, tm_pc, tm_result, raw_df, df,
                   transformers, model, risk_scores, individual, pl_vars, pd_vars, sv_vars, te_vars>>

\* lines 731-733: risk_scores = model.model.predict_proba(X)[:, 1]
RiskDistribution ==
    /\ dash_pc = "ready"
    /\ risk_scores' =
         [type |-> "scoring", cols |-> feature_names.items, X |-> X.rows,
          out |-> PredictProba(model.model, X.rows)]
    /\ UNCHANGED <<data_file, models_dir, tm_pc, tm_result, dash_pc, raw_df,
                   df, transformers, model, X, y, feature_names, individual,
                   pl_vars, pd_vars, sv_vars, te_vars>>

\* lines 845-876 and 936-938: "Analyze Churn Risk" on one form input
AnalyzeChurnRisk(f) ==
    /\ dash_pc = "ready"
    /\ LET input_data == InputData(f)
           pre == preprocess_data(input_data)
       IN  individual' =
             IF ~pre.ok
             THEN [type |-> "scoring", input_data |-> input_data,
                   transformers |-> None, cols |-> <<>>, X |-> <<>>,
                   out |-> pre]
             ELSE LET X_input == Matrix(pre.val.items[1], X_input_cols)
                  IN  [type |-> "scoring", input_data |-> input_data,
                       transformers |-> pre.val.items[2],
                       cols |-> X_input_cols, X |-> X_input,
                       out |-> PredictProba(model.model, X_input)]
    /\ UNCHANGED <<data_file, models_dir, tm_pc, tm_result, dash_pc, raw_df,
                   df, transformers, model, X, y, feature_names, risk_scores,
                   pl_vars, pd_vars, sv_vars, te_vars>>

Next ==
    \/ TrainModel
    \/ LoadData
    \/ LoadModels
    \/ PrepareOrStop
    \/ RiskDistribution
    \/ \E f \in FormInputs : AnalyzeChurnRisk(f)

Spec == Init /\ [][Next]_vars

\* ------------------------------------------------------------ the pipeline alone
\* preprocess_data and prepare_features applied to every table of RawTables
PipelineInit ==
    /\ raw_table \in RawTables
    /\ PipelineIdle
    /\ data_file = NoFile
    /\ models_dir = [f \in {} |-> None]
    /\ SysIdle
    /\ PredictorIdle
    /\ ServingIdle
    /\ TrainEvalIdle

\* preprocess_data(raw_table), lines 26-69: the table cleaned, renamed and
\* in years, or the exception raised on the way
Canonicalize ==
    /\ pl_pc = "input"
    /\ \E canonical \in {CanonicalTable(raw_table)} :
         /\ pl_canon' = canonical
         /\ pl_pc' = IF canonical.ok THEN "canonical" ELSE "raised"
    /\ pl_arg' = CallerTableAfter(raw_table)
    /\ UNCHANGED <<raw_table, pl_out, pl_feat, pl_single, sys_vars, pd_vars, sv_vars, te_vars>>

\* preprocess_data(raw_table), lines 71-94: encoded, scaled and returned
Normalize ==
    /\ pl_pc = "canonical"
    /\ \E out \in {EncodeAndScale(pl_canon.val)} :
         /\ pl_out' = out
         /\ pl_pc' = IF out.ok THEN "normalized" ELSE "raised"
    /\ UNCHANGED <<raw_table, pl_arg, pl_canon, pl_feat, pl_single, sys_vars, pd_vars, sv_vars, te_vars>>

\* X, y, feature_names = prepare_features(processed)
Prepare ==
    /\ pl_pc = "normalized"
    /\ \E feat \in {prepare_features(pl_out.val.items[1])} :
         /\ pl_feat' = feat
         /\ pl_pc' = IF feat.ok THEN "prepared" ELSE "raised"
    /\ UNCHANGED <<raw_table, pl_arg, pl_canon, pl_out, pl_single, sys_vars, pd_vars, sv_vars, te_vars>>

OneRowTable(t, i) ==
    [type |-> "DataFrame", cols |-> t.cols, rows |-> <<t.rows[i]>>]

\* row i of the table submitted alone, as a one-row table
NormalizeAlone(i) ==
    /\ pl_pc \in {"prepared", "raised"}
    /\ pl_single = None
    /\ pl_single' = [type |-> "single", row |-> i,
                     out |-> preprocess_data(OneRowTable(raw_table, i))]
    /\ UNCHANGED <<raw_table, pl_pc, pl_arg, pl_canon, pl_out, pl_feat, sys_vars, pd_vars, sv_vars, te_vars>>

PipelineNext ==
    \/ Canonicalize
    \/ Normalize
    \/ Prepare
    \/ \E i \in 1..Len(raw_table.rows) : NormalizeAlone(i)

PipelineSpec == PipelineInit /\ [][PipelineNext]_vars

\* ------------------------------------------------------------ one ChurnPredictor
\* A ChurnPredictor is constructed and then called: train, evaluate and
\* get_feature_importance, in any order, on any of TrainingSets.
PredictorInit ==
    /\ PredictorIdle
    /\ ServingIdle
    /\ TrainEvalIdle
    /\ data_file = NoFile
    /\ models_dir = [f \in {} |-> None]
    /\ SysIdle
    /\ raw_table = None
    /\ PipelineIdle

Called(op, data, out) == [op |-> op, data |-> data, out |-> out]

\* predictor = ChurnPredictor(model_type)
Construct(model_type) ==
    /\ predictor = None
    /\ Len(pd_hist) < MaxOps
    /\ \E new \in {NewChurnPredictor(model_type)} :
         /\ predictor' = IF new.ok THEN new.val ELSE None
         /\ pd_hist' = Append(pd_hist, Called("__init__", model_type,
                                  IF new.ok THEN Return(None) ELSE new))
    /\ UNCHANGED <<sys_vars, pl_vars, sv_vars, te_vars>>

\* predictor.train(X, y, feature_names)
TrainOp(ds) ==
    /\ predictor # None
    /\ Len(pd_hist) < MaxOps
    /\ IF FitRaises(ds[1], ds[2])
       THEN /\ predictor' = TrainRaised(predictor, ds[3])
            /\ pd_hist' = Append(pd_hist,
                    Called("train", ds, Raise("ValueError", "fit")))
       ELSE /\ predictor' = Train(predictor, ds[1], ds[2], ds[3])
            /\ pd_hist' = Append(pd_hist, Called("train", ds, Return(None)))
    /\ UNCHANGED <<sys_vars, pl_vars, sv_vars, te_vars>>

\* predictor.evaluate(X, y)
EvaluateOp(ds) ==
    /\ predictor # None
    /\ Len(pd_hist) < MaxOps
    /\ pd_hist' = Append(pd_hist,
            Called("evaluate", ds, Evaluate(predictor, ds[1], ds[2])))
    /\ predictor' = EvaluateSelf(predictor, ds[1], ds[2])
    /\ UNCHANGED <<sys_vars, pl_vars, sv_vars, te_vars>>

\* predictor.get_feature_importance(X)
GetFeatureImportanceOp(ds) ==
    /\ predictor # None
    /\ Len(pd_hist) < MaxOps
    /\ pd_hist' = Append(pd_hist,
            Called("get_feature_importance", ds,
                   GetFeatureImportance(predictor, ds[1])))
    /\ predictor' = GetFeatureImportanceSelf(predictor, ds[1])
    /\ UNCHANGED <<sys_vars, pl_vars, sv_vars, te_vars>>

PredictorNext ==
    \/ \E model_type \in model_types \cup {"svm"} : Construct(model_type)
    \/ \E ds \in TrainingSets : TrainOp(ds)
    \/ \E ds \in TrainingSets : EvaluateOp(ds)
    \/ \E ds \in TrainingSets : GetFeatureImportanceOp(ds)

PredictorSpec == PredictorInit /\ [][PredictorNext]_vars

\* ------------------------------------------------------------ serving
\* One trained ChurnPredictor, loaded once, is shared by the callers; each
\* makes predict_proba, evaluate and get_feature_importance calls, a call
\* beginning and returning in separate steps so that calls overlap.
ServedPredictors ==
    {Train(ChurnPredictorInit(model_type), ds[1], ds[2], ds[3]) :
        model_type \in model_types,
        ds \in {d \in TrainingSets : ~FitRaises(d[1], d[2])}}

read_ops == {"predict_proba", "evaluate", "get_feature_importance"}

\* the outcome of one read call on the predictor
ReadOutcome(self, op, ds) ==
    CASE op = "predict_proba" -> PredictProba(self.model, ds[1])
      [] op = "evaluate" -> Evaluate(self, ds[1], ds[2])
      [] op = "get_feature_importance" -> GetFeatureImportance(self, ds[1])

\* the predictor after one read call
ReadSelf(self, op, ds) ==
    CASE op = "predict_proba" -> PredictProbaSelf(self, ds[1])
      [] op = "evaluate" -> EvaluateSelf(self, ds[1], ds[2])
      [] op = "get_feature_importance" ->
            GetFeatureImportanceSelf(self, ds[1])

ServingInit ==
    /\ predictor \in ServedPredictors
    /\ sv_loaded = predictor
    /\ callers = [c \in Callers |-> [pc |-> "idle"]]
    /\ pd_hist = <<>>
    /\ TrainEvalIdle
    /\ data_file = NoFile
    /\ models_dir = [f \in {} |-> None]
    /\ SysIdle
    /\ raw_table = None
    /\ PipelineIdle

BeginCall(c, op, ds) ==
    /\ callers[c].pc # "calling"
    /\ callers' = [callers EXCEPT
                     ![c] = [pc |-> "calling", op |-> op, data |-> ds]]
    /\ UNCHANGED <<predictor, pd_hist, sv_loaded, sys_vars, pl_vars, te_vars>>

FinishCall(c) ==
    /\ callers[c].pc = "calling"
    /\ callers' = [callers EXCEPT
                     ![c] = [pc |-> "done", op |-> callers[c].op,
                             data |-> callers[c].data,
                             out |-> ReadOutcome(predictor, callers[c].op,
                                                 callers[c].data)]]
    /\ predictor' = ReadSelf(predictor, callers[c].op, callers[c].data)
    /\ UNCHANGED <<pd_hist, sv_loaded, sys_vars, pl_vars, te_vars>>

ServingNext ==
    \/ \E c \in Callers, op \in read_ops, ds \in TrainingSets :
          BeginCall(c, op, ds)
    \/ \E c \in Callers : FinishCall(c)

ServingSpec == ServingInit /\ [][ServingNext]_vars

\* ------------------------------------------------------------ train_evaluate_model
\* train_evaluate_model is run, and then run again, on the same arguments,
\* in one environment: the generator and the libraries are the same in both
\* runs.
TrainEvalStart ==
    [pc |-> "start", split |-> None, model |-> None, trained |-> None,
     metrics |-> None, exc |-> None]

TrainEvalInit ==
    /\ te_args \in
          {[X |-> ds[1], y |-> ds[2], feature_names |-> ds[3],
            model_type |-> mt, test_size |-> ts] :
              ds \in TrainEvalData, mt \in model_types \cup {"svm"},
              ts \in test_sizes}
    /\ shuffle \in [Seeds -> Shuffles(Len(te_args.X))]
    /\ te_env \in [roc_auc_raises : BOOLEAN, xgb_one_class_raises : BOOLEAN]
    /\ te = TrainEvalStart
    /\ te_first = None
    /\ PredictorIdle
    /\ ServingIdle
    /\ data_file = NoFile
    /\ models_dir = [f \in {} |-> None]
    /\ SysIdle
    /\ raw_table = None
    /\ PipelineIdle

te_rest == <<sys_vars, pl_vars, pd_vars, sv_vars>>

TrainEvalRaise(out) == [te EXCEPT !.pc = "raised", !.exc = out.exc]

\* lines 125-127
SplitStep ==
    /\ te.pc = "start"
    /\ \E seed \in SplitSeeds :
         \E out \in {TrainTestSplit(Len(te_args.X), te_args.test_size,
                                     shuffle[seed])} :
            te' = IF out.ok THEN [te EXCEPT !.pc = "split", !.split = out.val]
                  ELSE TrainEvalRaise(out)
    /\ UNCHANGED <<shuffle, te_env, te_args, te_first, te_rest>>

\* line 130
ConstructStep ==
    /\ te.pc = "split"
    /\ \E out \in {NewChurnPredictor(te_args.model_type)} :
         te' = IF out.ok THEN [te EXCEPT !.pc = "constructed", !.model = out.val]
               ELSE TrainEvalRaise(out)
    /\ UNCHANGED <<shuffle, te_env, te_args, te_first, te_rest>>

\* line 131
TrainStep ==
    /\ te.pc = "constructed"
    /\ LET X_train == Take(te_args.X, te.split.train)
           y_train == Take(te_args.y, te.split.train)
       IN  te' = IF TrainEvalFitRaises(te_env, te.model, X_train, y_train)
                 THEN [te EXCEPT !.pc = "raised", !.exc = "ValueError",
                          !.model = TrainRaised(te.model,
                                                te_args.feature_names)]
                 ELSE [te EXCEPT !.pc = "trained",
                          !.model = Train(te.model, X_train, y_train,
                                          te_args.feature_names),
                          !.trained = Train(te.model, X_train, y_train,
                                            te_args.feature_names)]
    /\ UNCHANGED <<shuffle, te_env, te_args, te_first, te_rest>>

\* line 134
EvaluateTrainStep ==
    /\ te.pc = "trained"
    /\ LET X_train == Take(te_args.X, te.split.train)
           y_train == Take(te_args.y, te.split.train)
           out == TrainEvalEvaluate(te_env, te.model, X_train, y_train)
           after == EvaluateSelf(te.model, X_train, y_train)
       IN  te' = IF out.ok
                 THEN [te EXCEPT !.pc = "evaluated_train", !.model = after,
                          !.metrics = [train_metrics |-> out.val]]
                 ELSE [te EXCEPT !.pc = "raised", !.exc = out.exc,
                          !.model = after]
    /\ UNCHANGED <<shuffle, te_env, te_args, te_first, te_rest>>

\* line 135
EvaluateTestStep ==
    /\ te.pc = "evaluated_train"
    /\ LET X_test == Take(te_args.X, te.split.test)
           y_test == Take(te_args.y, te.split.test)
           out == TrainEvalEvaluate(te_env, te.model, X_test, y_test)
           after == EvaluateSelf(te.model, X_test, y_test)
       IN  te' = IF out.ok
                 THEN [te EXCEPT !.pc = "evaluated_test", !.model = after,
                          !.metrics = [train_metrics |-> te.metrics.train_metrics,
                                       test_metrics |-> out.val]]
                 ELSE [te EXCEPT !.pc = "raised", !.exc = out.exc,
                          !.model = after]
    /\ UNCHANGED <<shuffle, te_env, te_args, te_first, te_rest>>

\* lines 138-147
CrossValidateStep ==
    /\ te.pc = "evaluated_test"
    /\ \E seed \in ClassifierSeeds :
         LET out == CrossValScore(te.model, te_args.X, te_args.y, seed)
             after == CrossValSelf(te.model, te_args.X, te_args.y)
         IN  te' = IF out.ok
                   THEN [te EXCEPT !.pc = "returned", !.model = after,
                            !.metrics =
                               [train_metrics |-> te.metrics.train_metrics,
                                test_metrics |-> te.metrics.test_metrics,
                                cv_mean |-> [k |-> "mean", of |-> out.val],
                                cv_std |-> [k |-> "std", of |-> out.val]]]
                   ELSE [te EXCEPT !.pc = "raised", !.exc = out.exc,
                            !.model = after]
    /\ UNCHANGED <<shuffle, te_env, te_args, te_first, te_rest>>

\* the same call once more
RunAgain ==
    /\ te.pc \in {"returned", "raised"}
    /\ te_first = None
    /\ te_first' = te
    /\ te' = TrainEvalStart
    /\ UNCHANGED <<shuffle, te_env, te_args, te_rest>>

TrainEvalNext ==
    \/ SplitStep
    \/ ConstructStep
    \/ TrainStep
    \/ EvaluateTrainStep
    \/ EvaluateTestStep
    \/ CrossValidateStep
    \/ RunAgain

TrainEvalSpec == TrainEvalInit /\ [][TrainEvalNext]_vars

\* ------------------------------------------------------------ properties
Scored == {s \in {risk_scores, individual} : s # None}

\* C1: every inference-time preprocess_data call transforms with the
\* transformer set fitted in the fit pass over the workbook (the dashboard's
\* transformers): the set an individual scoring applied is that set, none
\* newly fitted.
C1_InferenceUsesFittedTransformers ==
    individual # None => individual.transformers = transformers

\* the categorical fields of the submitted record whose value is not among
\* the classes of the encoder fitted for that field in the fit pass
UnknownCategoryFields(ind) ==
    {c \in ind.input_data.cols :
        /\ IsStr(ind.input_data.rows[1][c])
        /\ EncoderKey(NewName(c)) \in DOMAIN transformers
        /\ \A j \in 1..Len(transformers[EncoderKey(NewName(c))]) :
              transformers[EncoderKey(NewName(c))][j] # ind.input_data.rows[1][c]}

\* C2: an inference-time record with a categorical value outside the fitted
\* encoder's category set is refused with UnknownCategoryError naming the
\* field; it is never encoded.
C2_UnknownCategoryRaises ==
    (individual # None /\ UnknownCategoryFields(individual) # {}) =>
        /\ ~individual.out.ok
        /\ individual.out.exc = "UnknownCategoryError"
        /\ individual.out.arg \in UnknownCategoryFields(individual)

\* C3: a record submitted alone as a one-row table gets the feature values
\* it gets as a row of the batch.
C3_SingleRowAsInBatch ==
    (pl_single # None /\ pl_out # None /\ pl_out.ok /\ pl_single.out.ok) =>
        \A j \in 1..Len(feature_cols(pl_out.val.items[1])) :
            LET c == feature_cols(pl_out.val.items[1])[j]
            IN  pl_single.out.val.items[1].rows[1][c]
                    = pl_out.val.items[1].rows[pl_single.row][c]

\* C4: the matrix of every prediction has the columns, in the order, of the
\* feature list the loaded model was trained with.
C4_MatrixColumnsAsTrained ==
    \A s \in Scored : s.cols # <<>> => s.cols = model.feature_names.items

\* C5: the training script writes the model to the path the dashboard loads,
\* and a scoring dashboard holds the transformer store persisted in models/
\* beside that model.
C5_ModelLoadedWithItsStore ==
    /\ (tm_pc = "returned" /\ Trainable(data_file)) =>
          \E j \in 1..Len(tm_result.written) : tm_result.written[j] = model_path
    /\ Scored # {} =>
          /\ "scaler.joblib" \in DOMAIN models_dir
          /\ transformers = models_dir["scaler.joblib"]

\* C6: a run of train_model on a readable workbook with the expected schema
\* ends with the model artifact written to models/ and returns True.
C6_TrainModelWritesAndReturnsTrue ==
    (tm_pc = "returned" /\ Trainable(data_file)) =>
        /\ tm_result.ret = TRUE
        /\ "churn_model.joblib" \in DOMAIN models_dir

Canonical == pl_canon # None /\ pl_canon.ok

RawCell(i, c) == raw_table.rows[i][c]

\* the rows with a missing Total Charges and a numeric tenure and fee
ImputableRows ==
    {i \in 1..Len(raw_table.rows) :
        /\ IsNaN(RawCell(i, "Total Charges"))
        /\ IsNum(RawCell(i, "Monthly Charges"))
        /\ IsNum(RawCell(i, "Tenure Months"))}

\* C7 (tenure in months): a row with a missing Total Charges and a numeric
\* tenure and fee gets, before scaling,
\* Monthly Charges x Tenure Months, the tenure in months (36 months and a
\* fee of 40 give 1440); a row with a numeric Total Charges keeps it.
C7_ImputedFromMonths ==
    Canonical =>
        \A i \in 1..Len(raw_table.rows) :
            /\ i \in ImputableRows =>
                 pl_canon.val.rows[i]["TotalBalance"] =
                    Num(RawCell(i, "Monthly Charges").n
                            * RawCell(i, "Tenure Months").n,
                        RawCell(i, "Monthly Charges").d
                            * RawCell(i, "Tenure Months").d)
            /\ IsNum(RawCell(i, "Total Charges")) =>
                 pl_canon.val.rows[i]["TotalBalance"]
                    = RawCell(i, "Total Charges")

\* C7 (tenure in years): the imputed balance is the fee times the tenure in years
\* (3 years and a fee of 40 give 120).
C7_ImputedFromYears ==
    Canonical =>
        \A i \in ImputableRows :
            pl_canon.val.rows[i]["TotalBalance"] =
                Num(RawCell(i, "Monthly Charges").n
                        * pl_canon.val.rows[i]["YearsWithBank"].n,
                    RawCell(i, "Monthly Charges").d
                        * pl_canon.val.rows[i]["YearsWithBank"].d)

C7_Witness ==
    /\ Canonical
    /\ \E i \in ImputableRows :
          /\ RawCell(i, "Tenure Months") = Num(36, 1)
          /\ RawCell(i, "Monthly Charges") = Num(40, 1)
          /\ pl_canon.val.rows[i]["TotalBalance"] = Num(1440, 1)
    /\ \E i \in 1..Len(raw_table.rows) :
          /\ RawCell(i, "Total Charges") = Num(100, 1)
          /\ pl_canon.val.rows[i]["TotalBalance"] = Num(100, 1)

\* C8: a row with a missing Total Charges whose tenure or fee is missing too
\* gets the balance 0.
C8_FallbackToZero ==
    Canonical =>
        \A i \in 1..Len(raw_table.rows) :
            (/\ IsNaN(RawCell(i, "Total Charges"))
             /\ (IsNaN(RawCell(i, "Monthly Charges"))
                    \/ IsNaN(RawCell(i, "Tenure Months")))) =>
                pl_canon.val.rows[i]["TotalBalance"] = Num(0, 1)

HasStringInNumericField ==
    \E i \in 1..Len(raw_table.rows) :
        \E c \in {"Monthly Charges", "Total Charges"} : IsStr(RawCell(i, c))

\* C9: a currency string "$75.50" in a numeric field becomes the number
\* 75.50, a non-numeric string such as "N/A" becomes a missing value that is
\* imputed, and preprocess_data raises for neither.
C9_NumericStringsCoerced ==
    (TelcoCols \subseteq raw_table.cols /\ HasStringInNumericField) =>
        /\ pl_pc # "raised"
        /\ Canonical =>
             \A i \in 1..Len(raw_table.rows) :
                /\ RawCell(i, "Monthly Charges") = Str("$75.50") =>
                      pl_canon.val.rows[i]["MonthlyBankFees"] = Num(151, 2)
                /\ RawCell(i, "Total Charges") = Str("N/A") =>
                      IsNum(pl_canon.val.rows[i]["TotalBalance"])

\* C10: in every returned table each of YearsWithBank, MonthlyBankFees and
\* TotalBalance holds a finite number in every row.
C10_NumericFieldsFinite ==
    (pl_out # None /\ pl_out.ok) =>
        \A i \in 1..Len(raw_table.rows) :
            \A j \in 1..Len(numerical_cols) :
                pl_out.val.items[1].rows[i][numerical_cols[j]].k = "z"

\* the table and the transformers of a normal return of preprocess_data
Returned == pl_out # None /\ pl_out.ok

processed == pl_out.val.items[1]

fitted == pl_out.val.items[2]

\* C11 (before scaling): for every row with a numeric tenure the canonical
\* tenure, as it stands before the scaling step, is the raw tenure in months
\* divided by 12 (24 months give 2), and the returned table holds that value
\* standardized with the scaler fitted on the table.
C11_TenureInYearsBeforeScaling ==
    /\ Canonical =>
          \A i \in 1..Len(raw_table.rows) :
             IsNum(RawCell(i, "Tenure Months")) =>
                /\ IsNum(pl_canon.val.rows[i]["YearsWithBank"])
                /\ pl_canon.val.rows[i]["YearsWithBank"].n * 12
                        * RawCell(i, "Tenure Months").d
                     = RawCell(i, "Tenure Months").n
                        * pl_canon.val.rows[i]["YearsWithBank"].d
    /\ Returned =>
          \A i \in 1..Len(raw_table.rows) :
             processed.rows[i]["YearsWithBank"] =
                ScaleValue(fitted["numerical_scaler"]["YearsWithBank"],
                           pl_canon.val.rows[i]["YearsWithBank"])

\* C11 (returned table): the tenure in the table preprocess_data returns is
\* the raw tenure in months divided by 12.
C11_ReturnedTenureInYears ==
    Returned =>
        \A i \in 1..Len(raw_table.rows) :
            IsNum(RawCell(i, "Tenure Months")) =>
                processed.rows[i]["YearsWithBank"] =
                    Num(RawCell(i, "Tenure Months").n,
                        RawCell(i, "Tenure Months").d * 12)

C11_Witness ==
    /\ Canonical
    /\ Returned
    /\ \E i \in 1..Len(raw_table.rows) :
          /\ RawCell(i, "Tenure Months") = Num(24, 1)
          /\ pl_canon.val.rows[i]["YearsWithBank"] = Num(2, 1)
          /\ processed.rows[i]["YearsWithBank"].k = "z"
          /\ processed.rows[i]["YearsWithBank"].sgn = -1

Prepared == pl_feat # None /\ pl_feat.ok

\* the value the fitted transformers give a canonical cell of column c
Transformed(c, v) ==
    LET coded == IF EncoderKey(c) \in DOMAIN fitted
                 THEN EncodeValue(fitted[EncoderKey(c)], v)
                 ELSE v
    IN  IF \E j \in 1..Len(numerical_cols) : numerical_cols[j] = c
        THEN ScaleValue(fitted["numerical_scaler"][c], coded)
        ELSE coded

\* C12: X and y have one row per input row, and row i of X and entry i of y
\* are the transformed features and the label of input row i.
C12_RowsAligned ==
    Prepared =>
        LET Xm == pl_feat.val.items[1]
            yv == pl_feat.val.items[2]
            names == pl_feat.val.items[3]
            n == Len(raw_table.rows)
        IN  /\ Len(Xm) = n
            /\ Len(yv) = n
            /\ \A i \in 1..n :
                  /\ yv[i] = RawCell(i, "Churn Value")
                  /\ Len(Xm[i]) = Len(names)
                  /\ \A j \in 1..Len(names) :
                        Xm[i][j] =
                            Transformed(names[j],
                                        pl_canon.val.rows[i][names[j]])

C12_Witness ==
    /\ Prepared
    /\ Len(raw_table.rows) = 2
    /\ pl_feat.val.items[1][1] # pl_feat.val.items[1][2]
    /\ pl_feat.val.items[2][1] # pl_feat.val.items[2][2]

FeatureIndex(c) == CHOOSE k \in 1..Len(feature_list) : feature_list[k] = c

\* C13: prepare_features does not fail for a table that lacks a listed
\* column; feature_names holds exactly the listed names that are columns of
\* the table, in the list's order, and X has one column per name, in that
\* order, with that column's values.
C13_FeatureNamesSubsequence ==
    /\ (pl_feat # None /\ "Churn Value" \in processed.cols) => pl_feat.ok
    /\ Prepared =>
        LET Xm == pl_feat.val.items[1]
            names == pl_feat.val.items[3]
        IN  /\ \A j \in 1..Len(names) :
                  /\ names[j] \in processed.cols
                  /\ \E k \in 1..Len(feature_list) : feature_list[k] = names[j]
            /\ \A j \in 1..(Len(names) - 1) :
                  FeatureIndex(names[j]) < FeatureIndex(names[j + 1])
            /\ \A k \in 1..Len(feature_list) :
                  feature_list[k] \in processed.cols =>
                      \E j \in 1..Len(names) : names[j] = feature_list[k]
            /\ \A i \in 1..Len(Xm) :
                  /\ Len(Xm[i]) = Len(names)
                  /\ \A j \in 1..Len(names) :
                        Xm[i][j] = processed.rows[i][names[j]]

C13_Witness ==
    /\ Prepared
    /\ "PaymentMethod" \notin processed.cols
    /\ "CustomerID" \in processed.cols
    /\ Len(pl_feat.val.items[3]) = 13
    /\ Len(pl_feat.val.items[1][1]) = 13

\* C14: for a table without a label column prepare_features returns X and
\* feature_names normally and y = None.
C14_UnlabelledGivesNone ==
    (pl_feat # None
        /\ raw_table.cols \cap {"Churn Label", "Churn Value"} = {}) =>
        /\ pl_feat.ok
        /\ pl_feat.val.items[2] = None

\* the outcome of preprocess_data(raw_table), None while it is running
PreprocessOutcome ==
    IF pl_canon # None /\ ~pl_canon.ok THEN pl_canon ELSE pl_out

\* C15: preprocess_data on a table that lacks Tenure Months, Monthly Charges
\* or Total Charges raises MissingColumnError naming the absent column.
C15_MissingColumnRaises ==
    \A c \in required_cols :
        (PreprocessOutcome # None /\ c \notin raw_table.cols) =>
            /\ ~PreprocessOutcome.ok
            /\ PreprocessOutcome.exc = "MissingColumnError"
            /\ PreprocessOutcome.arg = c

Churned(i) ==
    IF "Churn Value" \in raw_table.cols
    THEN RawCell(i, "Churn Value") = Num(1, 1)
    ELSE RawCell(i, "Churn Label") = Str("Yes")

\* C16: for a table with a churn indicator in either form (the 0/1 Churn
\* Value or the "Yes"/"No" Churn Label) the label vector holds only 0 and 1,
\* with 1 exactly for the rows marked as churned.
C16_LabelFromEitherForm ==
    (pl_feat # None
        /\ raw_table.cols \cap {"Churn Label", "Churn Value"} # {}) =>
        /\ pl_feat.ok
        /\ \A i \in 1..Len(raw_table.rows) :
              /\ pl_feat.val.items[2][i] \in {Num(0, 1), Num(1, 1)}
              /\ pl_feat.val.items[2][i] = Num(1, 1) <=> Churned(i)

\* C18: the caller's table is after the call what it was before it: the
\* same columns, the same number of rows and the same value in every cell.
C18_InputUnchanged ==
    pl_arg # None =>
        /\ pl_arg.cols = raw_table.cols
        /\ Len(pl_arg.rows) = Len(raw_table.rows)
        /\ \A i \in 1..Len(raw_table.rows) :
              \A c \in raw_table.cols : pl_arg.rows[i][c] = RawCell(i, c)

C18_Witness ==
    /\ pl_arg # None
    /\ Returned
    /\ "City" \in raw_table.cols /\ "City" \notin processed.cols
    /\ \E i \in 1..Len(raw_table.rows) :
          /\ IsNaN(RawCell(i, "Total Charges"))
          /\ IsNum(pl_canon.val.rows[i]["TotalBalance"])
          /\ IsNaN(pl_arg.rows[i]["Total Charges"])

Trained == predictor # None /\ predictor.model.fitted

LastCall == pd_hist[Len(pd_hist)]

TrainCompleted(call) == call.op = "train" /\ call.out.ok

\* C19: a ChurnPredictor is Untrained when constructed, goes from Untrained
\* to Trained in a step exactly when that step is a train call that
\* completes, and no call takes a Trained predictor back to Untrained.
C19_UntrainedToTrained ==
    [][ /\ (predictor = None /\ predictor' # None) => ~Trained'
        /\ Trained => Trained'
        /\ Len(pd_hist') > Len(pd_hist) =>
              /\ TrainCompleted(LastCall') => Trained'
              /\ (~Trained /\ Trained') => TrainCompleted(LastCall')
      ]_vars

C19_Witness ==
    /\ Trained
    /\ Len(pd_hist) >= 3
    /\ pd_hist[1].op = "__init__"
    /\ TrainCompleted(pd_hist[2])
    /\ pd_hist[3].op \in {"evaluate", "get_feature_importance"}

TrainCalls == {i \in 1..Len(pd_hist) : pd_hist[i].op = "train"}

LastTrainCall ==
    pd_hist[CHOOSE k \in TrainCalls : \A i \in TrainCalls : i <= k]

\* C20: after train calls that all completed, whatever was called in
\* between, the predictor holds the feature_names of the most recent train
\* call and a classifier fitted on that call's X and y alone, so that train
\* called again with the same data leaves the same state.
C20_TrainOverwrites ==
    (TrainCalls # {} /\ \A i \in TrainCalls : pd_hist[i].out.ok) =>
        predictor =
            [type |-> "ChurnPredictor",
             model_type |-> predictor.model_type,
             model |-> [estimator |-> Family(predictor.model_type),
                        fitted |-> TRUE,
                        n_features_in |-> Len(LastTrainCall.data[1][1]),
                        X |-> LastTrainCall.data[1],
                        y |-> LastTrainCall.data[2]],
             feature_names |->
                [type |-> "list", items |-> LastTrainCall.data[3]]]

C20_Witness ==
    /\ Len(pd_hist) >= 3
    /\ TrainCompleted(pd_hist[2])
    /\ TrainCompleted(pd_hist[3])
    /\ pd_hist[2].data # pd_hist[3].data
    /\ predictor.feature_names.items = pd_hist[3].data[3]
    /\ predictor.model.X = pd_hist[3].data[1]

InitCalls == {i \in 1..Len(pd_hist) : pd_hist[i].op = "__init__"}

\* C22: a construction with a model_type outside model_types raises
\* ValueError and leaves no predictor; a construction with one of
\* model_types gives a predictor whose model_type and classifier class are,
\* in every later state, those of the construction.
C22_ModelFamilyFixed ==
    /\ \A i \in InitCalls :
          IF pd_hist[i].data \in model_types
          THEN pd_hist[i].out.ok
          ELSE ~pd_hist[i].out.ok /\ pd_hist[i].out.exc = "ValueError"
    /\ predictor = None <=> \A i \in InitCalls : ~pd_hist[i].out.ok
    /\ predictor # None =>
          \E i \in InitCalls :
             /\ pd_hist[i].out.ok
             /\ predictor.model_type = pd_hist[i].data
             /\ predictor.model.estimator = Family(pd_hist[i].data)

C22_Witness ==
    /\ Len(pd_hist) >= 3
    /\ pd_hist[1].op = "__init__" /\ pd_hist[1].data = "svm"
    /\ pd_hist[2].op = "__init__" /\ pd_hist[2].data = "random_forest"
    /\ TrainCompleted(pd_hist[3])
    /\ predictor.model.estimator = "RandomForestClassifier"

CompletedTrains == {i \in TrainCalls : pd_hist[i].out.ok}

LastCompletedTrain ==
    pd_hist[CHOOSE k \in CompletedTrains : \A i \in CompletedTrains : i <= k]

\* C27: after a train call whose fit failed the predictor is as it was
\* before the call: it holds the feature_names and the classifier of the last
\* train call that completed, or is Untrained with feature_names None.
C27_FailedTrainLeavesState ==
    (pd_hist # <<>> /\ LastCall.op = "train" /\ ~LastCall.out.ok) =>
        IF CompletedTrains = {}
        THEN ~predictor.model.fitted /\ predictor.feature_names = None
        ELSE /\ predictor.model.fitted
             /\ predictor.model.X = LastCompletedTrain.data[1]
             /\ predictor.model.y = LastCompletedTrain.data[2]
             /\ predictor.feature_names =
                   [type |-> "list", items |-> LastCompletedTrain.data[3]]

\* C21: while callers make overlapping predict_proba, evaluate and
\* get_feature_importance calls and none trains, the shared predictor stays
\* as loaded (its classifier and its feature_names), and every call returns
\* what it returns when it runs alone on the loaded predictor.
C21_ReadersDoNotInterfere ==
    sv_loaded # None =>
        /\ predictor.model = sv_loaded.model
        /\ predictor.feature_names = sv_loaded.feature_names
        /\ \A c \in Callers :
              callers[c].pc = "done" =>
                  callers[c].out =
                      ReadOutcome(sv_loaded, callers[c].op, callers[c].data)

C21_Witness ==
    /\ sv_loaded # None
    /\ \E c, d \in Callers :
          /\ callers[c].pc = "done"
          /\ callers[c].op = "evaluate"
          /\ callers[c].out.ok
          /\ callers[d].pc = "calling"
          /\ callers[d].op = "predict_proba"
          /\ callers[d].data # callers[c].data


\* C23: two runs of train_evaluate_model on identical inputs make the same
\* train/test split, and when both return their cv_mean and cv_std are equal.
C23_SameSplitAndCV ==
    te_first # None =>
        /\ (te.split # None /\ te_first.split # None) =>
               te.split = te_first.split
        /\ (te.pc = "returned" /\ te_first.pc = "returned") =>
               /\ te.metrics.cv_mean = te_first.metrics.cv_mean
               /\ te.metrics.cv_std = te_first.metrics.cv_std

C23_Witness ==
    /\ te_first # None
    /\ te_first.pc = "returned"
    /\ te.pc = "returned"
    /\ te.split = te_first.split
    /\ shuffle[42] # shuffle[7]

RowSet(idx) == {idx[i] : i \in 1..Len(idx)}

\* C29: in train_evaluate_model the train rows and the test rows are
\* disjoint and together are all the rows; the predictor is fitted on the
\* train rows only, and once trained neither evaluate call nor the
\* cross-validation changes its classifier or its feature_names.
C29_FittedOnTrainRowsOnly ==
    /\ te # None /\ te.split # None =>
          /\ RowSet(te.split.train) \cap RowSet(te.split.test) = {}
          /\ RowSet(te.split.train) \cup RowSet(te.split.test)
                = 1..Len(te_args.X)
          /\ Len(te.split.train) + Len(te.split.test) = Len(te_args.X)
    /\ te # None /\ te.trained # None =>
          /\ te.trained.model.fitted
          /\ te.trained.model.X = Take(te_args.X, te.split.train)
          /\ te.trained.model.y = Take(te_args.y, te.split.train)
          /\ te.trained.feature_names.items = te_args.feature_names
          /\ te.model.model = te.trained.model
          /\ te.model.feature_names = te.trained.feature_names

C29_Witness ==
    /\ te # None
    /\ te.pc = "returned"
    /\ te.split.test # <<>>
    /\ te.model.model.X = Take(te_args.X, te.split.train)
    /\ te.model.model.X # te_args.X


\* the canonical fields of the five inputs: tenure, recurring fee,
\* cumulative balance, contract type, payment method
five_inputs ==
    {"YearsWithBank", "MonthlyBankFees", "TotalBalance", "Contract",
     "PaymentMethod"}

HasFiveSources ==
    /\ {"Tenure Months", "Monthly Charges", "Total Charges", "Contract"}
          \subseteq raw_table.cols
    /\ \/ "Payment Method" \in raw_table.cols
       \/ "PaymentMethod" \in raw_table.cols

\* C24: for every raw table with the source columns of tenure, recurring
\* fee, cumulative balance, contract type and payment method, the feature
\* list and the feature matrix got by normalize and prepare have a column for
\* each of the five, payment method included.
C24_FiveInputsBecomeFeatures ==
    (Prepared /\ HasFiveSources) =>
        LET Xm == pl_feat.val.items[1]
            names == pl_feat.val.items[3]
        IN  /\ \A c \in five_inputs : \E j \in 1..Len(names) : names[j] = c
            /\ \A i \in 1..Len(Xm) : Len(Xm[i]) = Len(names)


SingleReturned == pl_single # None /\ pl_single.out.ok

SingleRow == pl_single.out.val.items[1].rows[1]

\* the canonical row of the one-row table, as it stands before the encoders
\* and the scaler are fitted
SingleCanonical ==
    CanonicalTable(OneRowTable(raw_table, pl_single.row)).val.rows[1]

SingleEncoded ==
    {c \in DOMAIN SingleRow :
        /\ EncoderKey(c) \in DOMAIN pl_single.out.val.items[2]
        /\ \A j \in 1..Len(numerical_cols) : numerical_cols[j] # c}

C26_TrainModelReportsOutcome ==
    tm_pc = "returned" =>
        /\ tm_result.ret \in BOOLEAN
        /\ tm_result.ret =>
              /\ tm_result.written =
                    <<"churn_model.joblib", "scaler.joblib",
                      "feature_names.joblib">>
              /\ \A j \in 1..Len(tm_result.written) :
                    tm_result.written[j] \in DOMAIN models_dir
        /\ tm_result.exc # "" => tm_result.ret = FALSE
        /\ data_file = NoFile => tm_result.ret = FALSE

C26_Witness ==
    /\ tm_pc = "returned"
    /\ data_file # NoFile
    /\ tm_result.ret = FALSE
    /\ tm_result.exc = "AttributeError"
    /\ tm_result.written = <<>>


DataLoadFails == data_file = NoFile \/ ~preprocess_data(data_file).ok

ModelLoadFails ==
    \/ model_path \notin DOMAIN models_dir
    \/ models_dir[model_path] = Unreadable

\* C28: load_data and load_models never raise: with the file missing or a
\* step failing they return (None, None, None) and None; and whenever the
\* processed data or the model is None the run stops before prepare_features
\* and before any predict_proba.
C28_LoadGuard ==
    /\ (dash_pc # "start" /\ DataLoadFails) =>
          raw_df = None /\ df = None /\ transformers = None
    /\ (dash_pc \notin {"start", "data"} /\ ModelLoadFails) => model = None
    /\ (dash_pc \notin {"start", "data", "models"}
            /\ (df = None \/ model = None)) =>
          /\ dash_pc = "stopped"
          /\ X = None /\ y = None /\ feature_names = None
          /\ risk_scores = None
          /\ individual = None

C28_Witness ==
    /\ dash_pc = "stopped"
    /\ df # None
    /\ ModelLoadFails
    /\ model = None
    /\ X = None

=============================================================================
